---- MODULE Spec2Model ----
(***************************************************************************)
(* Model of the employment pipeline of FedFundsPlot: usempl_npp and        *)
(* get_usempl_data (series loader, peak aligner, table and chart files),   *)
(* and of the overlay clipper's case classification of the rate pipeline.  *)
(*                                                                         *)
(* A date is the integer yyyymmdd, so that integer order is chronological  *)
(* order.  A missing value (NaN) is -1 and a missing date (NaT) is 0.      *)
(* A '%Y-%m-%d' string is the triple of its three numeric fields.          *)
(***************************************************************************)
EXTENDS Integers, Sequences, FiniteSets, TLC

VARIABLES
    pc,             \* position of the current run of usempl_npp
    runs,           \* number of runs of usempl_npp started so far
    frwd_mths_max,  \* argument of usempl_npp, the same for the whole session
    bkwd_mths_max,  \* argument of usempl_npp, the same for the whole session
    download_from_internet, \* argument of the current run
    end_date_str,   \* requested end date of the current run
    end_date_str2,  \* resolved end date of the current run
    usempl_df,      \* the series the run aligns over: sequence of <<Date, PAYEMS>>
    i,              \* index (0-based) of the next recession window to align
    peak_vals,      \* list of peak values found so far
    peak_dates,     \* list of peak date strings found so far
    usempl_pk,      \* the wide table: sequence of rows
    fs,             \* the files on disk: file name -> content
    err,            \* the error that ended the run, or "none"
    fetches,        \* number of remote fetches attempted in the current run
    written,        \* names of the files written by the current run
    lastRun,        \* what the last successful download-mode run returned
    visible_range,  \* overlay clipper: the visible range (date_from, date_to)
    intervals,      \* overlay clipper: the recession intervals (peak, trough)
    clip_k,         \* overlay clipper: number of intervals classified so far
    clip_cases,     \* overlay clipper: the case found for each interval
    rectangles      \* overlay clipper: the rectangles emitted so far

emplVars == <<pc, runs, frwd_mths_max, bkwd_mths_max, download_from_internet,
              end_date_str, end_date_str2, usempl_df, i, peak_vals,
              peak_dates, usempl_pk, fs, err, fetches, written, lastRun>>

clipVars == <<visible_range, intervals, clip_k, clip_cases, rectangles>>

vars == <<emplVars, clipVars>>

----------------------------------------------------------------------------
(* Bounds of the model *)

\* PAYEMS values of the varied points are drawn from 1..MaxVal
MaxVal == 2
\* frwd_mths_max and bkwd_mths_max are drawn from 0..MaxMths
MaxMths == 1
\* number of runs of usempl_npp in one session
MaxRuns == 2
\* the overlay clipper's dates are the days 1..MaxDay
MaxDay == 4

----------------------------------------------------------------------------
(* Dates and missing values *)

NaN == -1
NaT == 0

Date(y, m, d) == y * 10000 + m * 100 + d
Year(dt) == dt \div 10000
Month(dt) == (dt \div 100) % 100
Day(dt) == dt % 100

\* dt.strftime('%Y-%m-%d'): the three fields of the text
strftime(dt) == <<Year(dt), Month(dt), Day(dt)>>
\* dt.datetime.strptime(s, '%Y-%m-%d') and pandas' parsing of a date string
strptime(s) == Date(s[1], s[2], s[3])

isna(v) == v = NaN
\* elementwise == of pandas: NaN equals nothing, not even NaN
Eq(a, b) == ~isna(a) /\ ~isna(b) /\ a = b

SetMax(S) == CHOOSE x \in S : \A y \in S : y <= x
SetMin(S) == CHOOSE x \in S : \A y \in S : x <= y

Range(s) == {s[k] : k \in 1..Len(s)}

\* sort_values(by='Date') / sort_index(): rows old to new
ByDate(r1, r2) == r1[1] < r2[1]
SortByDate(s) == SortSeq(s, ByDate)

----------------------------------------------------------------------------
(* Recession-specific parameters *)

\* the search range of each of the 15 recessions, as (from, to) date strings
maxdate_rng_lst ==
    << << <<1929, 7, 1>>,  <<1929, 10, 1>> >>,
       << <<1937, 7, 1>>,  <<1937, 7, 1>> >>,
       << <<1945, 1, 1>>,  <<1945, 3, 1>> >>,
       << <<1948, 9, 1>>,  <<1949, 1, 1>> >>,
       << <<1953, 6, 1>>,  <<1953, 8, 1>> >>,
       << <<1957, 7, 1>>,  <<1957, 9, 1>> >>,
       << <<1960, 3, 1>>,  <<1960, 5, 1>> >>,
       << <<1969, 11, 1>>, <<1970, 3, 1>> >>,
       << <<1973, 10, 1>>, <<1974, 7, 1>> >>,
       << <<1979, 12, 1>>, <<1980, 3, 1>> >>,
       << <<1981, 6, 1>>,  <<1981, 8, 1>> >>,
       << <<1990, 6, 1>>,  <<1991, 8, 1>> >>,
       << <<2001, 2, 1>>,  <<2001, 4, 1>> >>,
       << <<2007, 11, 1>>, <<2008, 1, 1>> >>,
       << <<2020, 1, 1>>,  <<2020, 3, 1>> >> >>

NumRec == Len(maxdate_rng_lst)

\* the bounds of the search ranges as dates, as the comparison of the Date
\* column with a date string parses them
rng_dates ==
    [k \in 1..NumRec |->
        <<strptime(maxdate_rng_lst[k][1]), strptime(maxdate_rng_lst[k][2])>>]

\* window w (0-based, as enumerate gives it): its two bounds as dates
RngFrom(w) == rng_dates[w + 1][1]
RngTo(w) == rng_dates[w + 1][2]

----------------------------------------------------------------------------
(* File names and the CSV format *)

filename_basic(s) == <<"data/usempl_", s>>
filename_full(s) == <<"data/usempl_pk_", s>>
filename_html(s) == <<"images/usempl_npp_", s>>

\* A CSV line of the series file is <<date text, value text>>; the value text
\* is the empty field for NaN and the field holding the numeral otherwise.
\* The first line of a file is the header line.
CsvHeader == << <<>>, <<>> >>
CsvLine(row) == <<strftime(row[1]), IF isna(row[2]) THEN <<>> ELSE <<row[2]>> >>
\* DataFrame.to_csv(filename, index=False)
to_csv(df) == <<CsvHeader>> \o [k \in 1..Len(df) |-> CsvLine(df[k])]

\* pd.read_csv(path, names=['Date', 'PAYEMS'], parse_dates=['Date'],
\*             skiprows=1, na_values=['.', 'na', 'NaN'])
ParseLine(line) == <<strptime(line[1]), IF line[2] = <<>> THEN NaN ELSE line[2][1]>>
read_csv(lines) == [k \in 1..(Len(lines) - 1) |-> ParseLine(lines[k + 1])]

\* DataFrame.dropna(): the rows with no missing field
NotMissing(row) == row[1] # NaT /\ ~isna(row[2])
dropna(df) == SelectSeq(df, NotMissing)

----------------------------------------------------------------------------
(* The inputs of the series loader *)

\* dt.date.today(), the end date of a run with usempl_end_date = 'today'
Today == Date(2020, 4, 1)

start_date == Date(1939, 1, 1)

\* The remote source answers with PAYEMS rows dated from start_date to the
\* requested end date at the latest, in no particular order.  The answers
\* modelled hold one point at the start of the search range of each of the
\* recessions 1945 to 2007, and a varied part: any of two points of February
\* 2020, each missing or with a value of 1..MaxVal.
FetchVarDates == {Date(2020, 2, 1), Date(2020, 2, 15)}
FetchBase == [k \in 1..12 |-> <<RngFrom(14 - k), 1>>]
FetchVar(present, vals) ==
    LET d1 == Date(2020, 2, 15)
        d2 == Date(2020, 2, 1)
    IN  (IF d1 \in present THEN << <<d1, vals[d1]>> >> ELSE <<>>) \o
        (IF d2 \in present THEN << <<d2, vals[d2]>> >> ELSE <<>>)
FetchResponse(present, vals) == FetchVar(present, vals) \o FetchBase

\* data/usempl_anual_1919-1938.csv: annual averages 1919-1938, dated July 1
usempl_ann_file == to_csv([k \in 1..20 |-> <<Date(1918 + k, 7, 1), 1>>])

\* pd.date_range(from, to, freq='MS'): the month starts from..to
date_range_MS(from, to) ==
    LET n == (Year(to) - Year(from)) * 12 + (Month(to) - Month(from)) + 1
        m0 == Year(from) * 12 + (Month(from) - 1)
    IN  [k \in 1..n |-> Date((m0 + k - 1) \div 12, ((m0 + k - 1) % 12) + 1, 1)]

\* The values of the cubic spline are not computed: the value interpolated at
\* a date is an input.  It is varied at the dates of InterpVarDates, between
\* the value of the annual rows and MaxVal.
InterpVarDates == {Date(1929, 8, 1)}
SplineAt(fill, dt) == IF dt \in InterpVarDates THEN fill[dt] ELSE 1

\* Series.interpolate(method='cubic') of the PAYEMS column of rows: a missing
\* value strictly between the first and the last valid value is filled, the
\* leading and trailing missing values stay missing.
interpolate(rows, fill) ==
    LET valid == {k \in 1..Len(rows) : ~isna(rows[k][2])}
        first == IF valid = {} THEN 0 ELSE SetMin(valid)
        last == IF valid = {} THEN 0 ELSE SetMax(valid)
    IN  [k \in 1..Len(rows) |->
            IF isna(rows[k][2]) /\ first < k /\ k < last
            THEN <<rows[k][1], SplineAt(fill, rows[k][1])>>
            ELSE rows[k]]

\* pd.merge(usempl_df, months_df, on='Date', how='outer'): the rows of the
\* series, then a row with a missing value for each month not in the series
merge_outer(df, months) ==
    LET have == {df[k][1] : k \in 1..Len(df)}
        NotIn(dt) == dt \notin have
        extra == SelectSeq(months, NotIn)
    IN  df \o [k \in 1..Len(extra) |-> <<extra[k], NaN>>]

----------------------------------------------------------------------------
(* The peak aligner *)

InRange(dt, w) == dt >= RngFrom(w) /\ dt <= RngTo(w)

\* usempl_df['PAYEMS'][(Date >= from) & (Date <= to)].max(): the largest
\* non-missing value, NaN when there is none
PeakVal(df, w) ==
    LET vals == {df[k][2] : k \in {j \in 1..Len(df) :
                                     InRange(df[j][1], w) /\ ~isna(df[j][2])}}
    IN  IF vals = {} THEN NaN ELSE SetMax(vals)

\* PeakDate with .min() for .max(): the earliest date of the peak value
PeakDate_earliest(df, w, pv) ==
    LET ds == {df[k][1] : k \in {j \in 1..Len(df) :
                                   InRange(df[j][1], w) /\ Eq(df[j][2], pv)}}
    IN  IF ds = {} THEN NaT ELSE SetMin(ds)

\* PeakDate without the two conditions on the date: the latest date of the
\* peak value in the whole series
PeakDate_anywhere(df, w, pv) ==
    LET ds == {df[k][1] : k \in {j \in 1..Len(df) : Eq(df[j][2], pv)}}
    IN  IF ds = {} THEN NaT ELSE SetMax(ds)

\* PeakDate that falls back on the start of the search range when no date
\* qualifies, so that the loop goes on with a missing peak value
PeakDate_nofail(df, w, pv) ==
    LET ds == {df[k][1] : k \in {j \in 1..Len(df) :
                                   InRange(df[j][1], w) /\ Eq(df[j][2], pv)}}
    IN  IF ds = {} THEN RngFrom(w) ELSE SetMax(ds)

\* usempl_df['Date'][(Date >= from) & (Date <= to) & (PAYEMS == peak_val)]
\* .max(): the latest such date, NaT when there is none
PeakDate(df, w, pv) ==
    LET ds == {df[k][1] : k \in {j \in 1..Len(df) :
                                   InRange(df[j][1], w) /\ Eq(df[j][2], pv)}}
    IN  IF ds = {} THEN NaT ELSE SetMax(ds)

\* MthsFrmPk without the years
MthsFrmPk_noYear(dt, pk) == Month(dt) - Month(pk)

\* (Date.dt.year - peak_date.year) * 12 + (Date.dt.month - peak_date.month)
MthsFrmPk(dt, pk) == (Year(dt) - Year(pk)) * 12 + (Month(dt) - Month(pk))

RECURSIVE GCD(_, _)
GCD(a, b) == IF b = 0 THEN a ELSE GCD(b, a % b)

\* PAYEMS / peak_val: the quotient as a fraction in lowest terms, NaN when
\* either side is missing
NaNRatio == <<NaN, NaN>>
Div(v, p) ==
    IF isna(v) \/ isna(p) THEN NaNRatio
    ELSE LET g == GCD(v, p) IN <<v \div g, p \div g>>

\* the columns of usempl_pk_long that the join of window w reads
LongRows(df, pv, pd) ==
    [k \in 1..Len(df) |->
        [key |-> MthsFrmPk(df[k][1], pd),
         Date |-> df[k][1],
         PAYEMS |-> df[k][2],
         usempl_dv_pk |-> Div(df[k][2], pv)]]

MissingCell == [Date |-> NaT, PAYEMS |-> NaN, usempl_dv_pk |-> NaNRatio]
Cell(r) == [Date |-> r.Date, PAYEMS |-> r.PAYEMS, usempl_dv_pk |-> r.usempl_dv_pk]

\* the rows that a left row gives in pd.merge(left, right, how='left'): one
\* for each right row with the left row's key, in the right's order, and one
\* with missing values when there is none
JoinRow(row, right) ==
    LET Match(r) == r.key = row.mths_frm_peak
        m == SelectSeq(right, Match)
    IN  IF m = <<>>
        THEN <<[row EXCEPT !.cols = Append(@, MissingCell)]>>
        ELSE [j \in 1..Len(m) |-> [row EXCEPT !.cols = Append(@, Cell(m[j]))]]

RECURSIVE merge_left_from(_, _, _)
merge_left_from(tbl, right, k) ==
    IF k > Len(tbl) THEN <<>>
    ELSE JoinRow(tbl[k], right) \o merge_left_from(tbl, right, k + 1)

\* pd.merge(usempl_pk, usempl_pk_long[[...]], left_on='mths_frm_peak',
\*          right_on=mths_frm_pk_name, how='left'), then drop and rename
merge_left(tbl, right) == merge_left_from(tbl, right, 1)

\* pd.DataFrame(np.arange(-bkwd_mths_max, frwd_mths_max + 1, dtype=int),
\*              columns=['mths_frm_peak'])
OffsetAxis(bkwd, frwd) ==
    [k \in 1..(bkwd + frwd + 1) |-> [mths_frm_peak |-> k - 1 - bkwd, cols |-> <<>>]]

----------------------------------------------------------------------------
(* The runs of usempl_npp *)

NoRun == [end |-> <<0, 0, 0>>, df |-> <<>>, peak_vals |-> <<>>,
          peak_dates |-> <<>>, pk |-> <<>>]

WriteFile(files, name, content) == (name :> content) @@ files

\* the end dates of the series cache files on disk
CachedDates == {n[2] : n \in {x \in DOMAIN fs : x[1] = "data/usempl_"}}

EmplInit(mths) ==
    /\ pc = "idle"
    /\ runs = 0
    /\ frwd_mths_max \in mths
    /\ bkwd_mths_max \in mths
    /\ download_from_internet = FALSE
    /\ end_date_str = strftime(Today)
    /\ end_date_str2 = strftime(Today)
    /\ usempl_df = <<>>
    /\ i = 0
    /\ peak_vals = <<>>
    /\ peak_dates = <<>>
    /\ usempl_pk = <<>>
    /\ fs = <<>>
    /\ err = "none"
    /\ fetches = 0
    /\ written = {}
    /\ lastRun = NoRun

\* usempl_npp is called (lines 289-312) and get_usempl_data begins (80-90).
\* A session is a first run in either mode on an empty data directory and
\* then runs in cache mode, for 'today' or for the end date of a cached file.
Start ==
    /\ pc \in {"idle", "done", "failed"}
    /\ runs < MaxRuns
    /\ \E dl \in BOOLEAN, e \in {strftime(Today)} \cup CachedDates :
        /\ dl => runs = 0
        /\ download_from_internet' = dl
        /\ end_date_str' = e
        /\ end_date_str2' = e
    /\ runs' = runs + 1
    /\ pc' = "load"
    /\ usempl_df' = <<>>
    /\ i' = 0
    /\ peak_vals' = <<>>
    /\ peak_dates' = <<>>
    /\ usempl_pk' = <<>>
    /\ err' = "none"
    /\ fetches' = 0
    /\ written' = {}
    /\ UNCHANGED <<frwd_mths_max, bkwd_mths_max, fs, lastRun>>

\* ResolvedEnd that trusts the request
ResolvedEnd_requested(df) == end_date_str

\* the end date the download resolves: the date of the last row (line 101)
ResolvedEnd(df) == strftime(df[Len(df)][1])

\* FetchFail that tries again (up to three times) instead of propagating
FetchFail_retry ==
    /\ pc = "load" /\ download_from_internet
    /\ fetches < 3
    /\ fetches' = fetches + 1
    /\ UNCHANGED <<pc, err, runs, frwd_mths_max, bkwd_mths_max,
                   download_from_internet, end_date_str, end_date_str2,
                   usempl_df, i, peak_vals, peak_dates, usempl_pk, fs, written,
                   lastRun>>

\* FredReader(...).read() fails: the error propagates (lines 96-97)
FetchFail ==
    /\ pc = "load" /\ download_from_internet
    /\ fetches' = fetches + 1
    /\ err' = "RemoteDataError"
    /\ pc' = "failed"
    /\ UNCHANGED <<runs, frwd_mths_max, bkwd_mths_max, download_from_internet,
                   end_date_str, end_date_str2, usempl_df, i, peak_vals,
                   peak_dates, usempl_pk, fs, written, lastRun>>

\* the download succeeds; the series is sorted, the end date is re-derived
\* and the series is written to the cache file (lines 96-105)
FetchOk ==
    /\ pc = "load" /\ download_from_internet
    /\ \E present \in SUBSET FetchVarDates,
          vals \in [FetchVarDates -> {NaN} \cup (1..MaxVal)] :
        LET df == SortByDate(FetchResponse(present, vals))
            e2 == ResolvedEnd(df)
        IN  /\ \A k \in 1..Len(df) :
                   df[k][1] >= start_date /\ df[k][1] <= strptime(end_date_str)
            /\ usempl_df' = df
            /\ end_date_str2' = e2
            /\ fs' = WriteFile(fs, filename_basic(e2), to_csv(df))
            /\ written' = written \cup {filename_basic(e2)}
    /\ fetches' = fetches + 1
    /\ pc' = "annual"
    /\ UNCHANGED <<runs, frwd_mths_max, bkwd_mths_max, download_from_internet,
                   end_date_str, i, peak_vals, peak_dates, usempl_pk, err,
                   lastRun>>

\* pd.read_csv of the annual file fails (line 117)
ReadAnnualFail ==
    /\ pc = "annual"
    /\ err' = "FileNotFoundError"
    /\ pc' = "failed"
    /\ UNCHANGED <<runs, frwd_mths_max, bkwd_mths_max, download_from_internet,
                   end_date_str, end_date_str2, usempl_df, i, peak_vals,
                   peak_dates, usempl_pk, fs, fetches, written, lastRun>>

\* the annual rows are appended, the series is sorted and written to the
\* cache file again, the months of 1919-1938 are merged in and the first 242
\* rows are interpolated (lines 117-135)
ReadAnnualOk ==
    /\ pc = "annual"
    /\ \E fill \in [InterpVarDates -> {1, MaxVal}] :
        LET ann == read_csv(usempl_ann_file)
            df1 == SortByDate(usempl_df \o ann)
            months == date_range_MS(Date(1919, 1, 1), Date(1938, 12, 1))
            df2 == SortByDate(merge_outer(df1, months))
            n == IF Len(df2) < 242 THEN Len(df2) ELSE 242
            df3 == interpolate(SubSeq(df2, 1, n), fill) \o
                   SubSeq(df2, n + 1, Len(df2))
        IN  /\ fs' = WriteFile(fs, filename_basic(end_date_str2), to_csv(df1))
            /\ usempl_df' = df3
    /\ written' = written \cup {filename_basic(end_date_str2)}
    /\ usempl_pk' = OffsetAxis(bkwd_mths_max, frwd_mths_max)
    /\ pc' = "align"
    /\ UNCHANGED <<runs, frwd_mths_max, bkwd_mths_max, download_from_internet,
                   end_date_str, end_date_str2, i, peak_vals, peak_dates, err,
                   fetches, lastRun>>

\* ReadCacheMiss that goes on with an empty series instead of failing
ReadCacheMiss_empty ==
    /\ pc = "load" /\ ~download_from_internet
    /\ filename_basic(end_date_str) \notin DOMAIN fs
    /\ usempl_df' = <<>>
    /\ usempl_pk' = [k \in 1..(bkwd_mths_max + frwd_mths_max + 1) |->
                        [mths_frm_peak |-> k - 1 - bkwd_mths_max, cols |-> <<>>]]
    /\ pc' = "align"
    /\ UNCHANGED <<runs, frwd_mths_max, bkwd_mths_max, download_from_internet,
                   end_date_str, end_date_str2, i, peak_vals, peak_dates, fs,
                   err, fetches, written, lastRun>>

\* cache mode, and the cache file of the requested end date is absent: the
\* pd.read_csv of line 140 fails
ReadCacheMiss ==
    /\ pc = "load" /\ ~download_from_internet
    /\ filename_basic(end_date_str) \notin DOMAIN fs
    /\ err' = "FileNotFoundError"
    /\ pc' = "failed"
    /\ UNCHANGED <<runs, frwd_mths_max, bkwd_mths_max, download_from_internet,
                   end_date_str, end_date_str2, usempl_df, i, peak_vals,
                   peak_dates, usempl_pk, fs, fetches, written, lastRun>>

\* cache mode: the series is read from the cache file (lines 138-143)
ReadCache ==
    /\ pc = "load" /\ ~download_from_internet
    /\ filename_basic(end_date_str) \in DOMAIN fs
    /\ usempl_df' = dropna(read_csv(fs[filename_basic(end_date_str)]))
    /\ usempl_pk' = OffsetAxis(bkwd_mths_max, frwd_mths_max)
    /\ pc' = "align"
    /\ UNCHANGED <<runs, frwd_mths_max, bkwd_mths_max, download_from_internet,
                   end_date_str, end_date_str2, i, peak_vals, peak_dates, fs,
                   err, fetches, written, lastRun>>

\* one pass of the loop over the recessions (lines 210-246).  The peak value
\* is appended before the peak date is looked up; peak_date.strftime raises
\* a ValueError when the peak date is NaT.
AlignWindow ==
    /\ pc = "align" /\ i < NumRec
    /\ LET pv == PeakVal(usempl_df, i)
           pd == PeakDate(usempl_df, i, pv)
       IN  /\ peak_vals' = Append(peak_vals, pv)
           /\ IF pd = NaT
              THEN /\ err' = "ValueError"
                   /\ pc' = "failed"
                   /\ UNCHANGED <<peak_dates, usempl_pk, i>>
              ELSE /\ peak_dates' = Append(peak_dates, strftime(pd))
                   /\ usempl_pk' = merge_left(usempl_pk, LongRows(usempl_df, pv, pd))
                   /\ i' = i + 1
                   /\ UNCHANGED <<err, pc>>
    /\ UNCHANGED <<runs, frwd_mths_max, bkwd_mths_max, download_from_internet,
                   end_date_str, end_date_str2, usempl_df, fs, fetches,
                   written, lastRun>>

\* WriteFull inside the loop: the table is written and returned as soon as
\* one window is joined
WriteFull_early ==
    /\ pc = "align" /\ i >= 1
    /\ fs' = (filename_full(end_date_str2) :> usempl_pk) @@ fs
    /\ written' = written \cup {filename_full(end_date_str2)}
    /\ lastRun' = lastRun
    /\ pc' = "render"
    /\ UNCHANGED <<runs, frwd_mths_max, bkwd_mths_max, download_from_internet,
                   end_date_str, end_date_str2, usempl_df, i, peak_vals,
                   peak_dates, usempl_pk, err, fetches>>

\* the peak-aligned table is written and get_usempl_data returns (248-251)
WriteFull ==
    /\ pc = "align" /\ i = NumRec
    /\ fs' = WriteFile(fs, filename_full(end_date_str2), usempl_pk)
    /\ written' = written \cup {filename_full(end_date_str2)}
    /\ lastRun' = IF download_from_internet
                  THEN [end |-> end_date_str2, df |-> usempl_df,
                        peak_vals |-> peak_vals, peak_dates |-> peak_dates,
                        pk |-> usempl_pk]
                  ELSE lastRun
    /\ pc' = "render"
    /\ UNCHANGED <<runs, frwd_mths_max, bkwd_mths_max, download_from_internet,
                   end_date_str, end_date_str2, usempl_df, i, peak_vals,
                   peak_dates, usempl_pk, err, fetches>>

\* usempl_npp builds the figure (lines 313-501) and, when html_show is set,
\* show(fig) writes the chart file named at line 342 (lines 502-505)
Render ==
    /\ pc = "render"
    /\ \E html_show \in BOOLEAN :
        IF html_show
        THEN /\ fs' = WriteFile(fs, filename_html(end_date_str2), usempl_pk)
             /\ written' = written \cup {filename_html(end_date_str2)}
        ELSE UNCHANGED <<fs, written>>
    /\ pc' = "done"
    /\ UNCHANGED <<runs, frwd_mths_max, bkwd_mths_max, download_from_internet,
                   end_date_str, end_date_str2, usempl_df, i, peak_vals,
                   peak_dates, usempl_pk, err, fetches, lastRun>>

----------------------------------------------------------------------------
(* The overlay clipper of the rate pipeline: clip_overlays(intervals,       *)
(* visible_range).  Each interval is classified by the first branch that    *)
(* matches, and the branch emits the clipped rectangle.                     *)

IsOutside(peak, trough, date_from, date_to) ==
    trough < date_from \/ peak > date_to
IsStartsBeforeRange(peak, trough, date_from, date_to) ==
    peak < date_from /\ date_from <= trough /\ trough <= date_to
IsInside(peak, trough, date_from, date_to) ==
    peak >= date_from /\ trough <= date_to
IsExtendsAfterRange(peak, trough, date_from, date_to) ==
    date_from <= peak /\ peak <= date_to /\ trough > date_to

\* the branch taken for an interval, "Dropped" when no branch matches
ClipCase(peak, trough, date_from, date_to) ==
    IF IsOutside(peak, trough, date_from, date_to) THEN "Outside"
    ELSE IF IsStartsBeforeRange(peak, trough, date_from, date_to)
         THEN "StartsBeforeRange"
    ELSE IF IsInside(peak, trough, date_from, date_to) THEN "Inside"
    ELSE IF IsExtendsAfterRange(peak, trough, date_from, date_to)
         THEN "ExtendsAfterRange"
    ELSE "Dropped"

\* ClipRects that does not clip: every branch emits the interval as it is
ClipRects_unclipped(case, peak, trough, date_from, date_to) ==
    CASE case = "StartsBeforeRange" -> << <<peak, trough>> >>
      [] case = "Inside" -> << <<peak, trough>> >>
      [] case = "ExtendsAfterRange" -> << <<peak, trough>> >>
      [] OTHER -> <<>>

\* the rectangles a branch emits
ClipRects(case, peak, trough, date_from, date_to) ==
    CASE case = "StartsBeforeRange" -> << <<date_from, trough>> >>
      [] case = "Inside" -> << <<peak, trough>> >>
      [] case = "ExtendsAfterRange" -> << <<peak, date_to>> >>
      [] OTHER -> <<>>

ClipIdle ==
    /\ visible_range = <<1, 1>>
    /\ intervals = <<>>
    /\ clip_k = 0
    /\ clip_cases = <<>>
    /\ rectangles = <<>>

\* the recession reference table: intervals with peak <= trough that do not
\* overlap each other, old to new
IntervalLists ==
    LET Ivs == {iv \in (1..MaxDay) \X (1..MaxDay) : iv[1] <= iv[2]}
    IN  {<<iv>> : iv \in Ivs} \cup
        {<<p[1], p[2]>> : p \in {q \in Ivs \X Ivs : q[2][1] > q[1][2]}}

ClipInit ==
    /\ visible_range \in {r \in (1..MaxDay) \X (1..MaxDay) : r[1] <= r[2]}
    /\ intervals \in IntervalLists
    /\ clip_k = 0
    /\ clip_cases = <<>>
    /\ rectangles = <<>>

\* one pass of the loop over the intervals
ClipStep ==
    /\ clip_k < Len(intervals)
    /\ LET iv == intervals[clip_k + 1]
           case == ClipCase(iv[1], iv[2], visible_range[1], visible_range[2])
       IN  /\ clip_cases' = Append(clip_cases, case)
           /\ rectangles' = rectangles \o
                  ClipRects(case, iv[1], iv[2], visible_range[1], visible_range[2])
    /\ clip_k' = clip_k + 1
    /\ UNCHANGED <<visible_range, intervals>>

----------------------------------------------------------------------------
(* Specifications *)

Init == EmplInit(0..MaxMths) /\ ClipIdle

Next ==
    \/ Start /\ UNCHANGED clipVars
    \/ FetchFail /\ UNCHANGED clipVars
    \/ FetchOk /\ UNCHANGED clipVars
    \/ ReadAnnualFail /\ UNCHANGED clipVars
    \/ ReadAnnualOk /\ UNCHANGED clipVars
    \/ ReadCacheMiss /\ UNCHANGED clipVars
    \/ ReadCache /\ UNCHANGED clipVars
    \/ AlignWindow /\ UNCHANGED clipVars
    \/ WriteFull /\ UNCHANGED clipVars
    \/ Render /\ UNCHANGED clipVars

\* the employment pipeline: sessions of runs of usempl_npp
Spec == Init /\ [][Next]_vars

ClipNext == ClipStep /\ UNCHANGED emplVars

\* the overlay clipper on every visible range and interval list
ClipSpecInit == EmplInit({0}) /\ ClipInit

ClipSpec == ClipSpecInit /\ [][ClipNext]_vars

----------------------------------------------------------------------------
(* The claims *)

\* window w's search range holds a non-missing value of the series
HasData(df, w) ==
    \E k \in 1..Len(df) :
        df[k][1] >= RngFrom(w) /\ df[k][1] <= RngTo(w) /\ df[k][2] # NaN

\* the windows whose reported peak is compared with the series: while the
\* loop runs the window it has just aligned, and all the windows aligned once
\* the loop has ended (the lists of peaks only grow by appending)
PeaksToCheck ==
    IF pc = "align"
    THEN {w \in {Len(peak_dates) - 1} : w >= 0}
    ELSE 0..(Len(peak_dates) - 1)

\* C1: for every window for which a peak is reported, the peak value is the
\* largest non-missing value of the series dated inside the window's search
\* range (both ends included), and the peak date is the latest date in the
\* range that has this value.
C1_PeakIsLatestMax ==
    \A w \in PeaksToCheck :
        LET pv == peak_vals[w + 1]
            pd == strptime(peak_dates[w + 1])
            inw == {k \in 1..Len(usempl_df) :
                      /\ usempl_df[k][1] >= RngFrom(w)
                      /\ usempl_df[k][1] <= RngTo(w)
                      /\ usempl_df[k][2] # NaN}
        IN  /\ \E k \in inw : usempl_df[k][2] = pv /\ usempl_df[k][1] = pd
            /\ \A k \in inw :
                   /\ usempl_df[k][2] <= pv
                   /\ usempl_df[k][2] = pv => usempl_df[k][1] <= pd

\* C1 witness: a finished run in which two dates of the last window's search
\* range tie on the peak value
C1_Witness ==
    /\ pc = "done"
    /\ \E k1, k2 \in 1..Len(usempl_df) :
        /\ usempl_df[k1][1] < usempl_df[k2][1]
        /\ usempl_df[k1][1] >= RngFrom(14) /\ usempl_df[k2][1] <= RngTo(14)
        /\ usempl_df[k1][2] = peak_vals[15]
        /\ usempl_df[k2][2] = peak_vals[15]

\* C2: after the 15 joins the wide table has exactly one row for each offset
\* of -bkwd_mths_max..frwd_mths_max, whatever the series.
C2_OneRowPerOffset ==
    pc \in {"render", "done"} =>
        /\ Len(usempl_pk) = bkwd_mths_max + frwd_mths_max + 1
        /\ \A k \in 1..Len(usempl_pk) :
               usempl_pk[k].mths_frm_peak = k - 1 - bkwd_mths_max

\* C3: in every row of the wide table and for every window joined so far, a
\* non-missing Date{w} is at the row's offset from the window's peak date,
\* counted in calendar months.
C3_OffsetIsMonthDifference ==
    \A k \in 1..Len(usempl_pk) :
        \A w \in 0..(Len(usempl_pk[k].cols) - 1) :
            LET dt == usempl_pk[k].cols[w + 1].Date
                pk == strptime(peak_dates[w + 1])
            IN  dt # NaT =>
                    usempl_pk[k].mths_frm_peak =
                        (Year(dt) - Year(pk)) * 12 + (Month(dt) - Month(pk))

\* C3 witness: a finished run whose table holds a date that is not a month
\* start, and a date at an offset other than 0
C3_Witness ==
    /\ pc = "done"
    /\ \E k \in 1..Len(usempl_pk) : Day(usempl_pk[k].cols[15].Date) > 1
    /\ \E k \in 1..Len(usempl_pk) :
        /\ usempl_pk[k].mths_frm_peak # 0
        /\ usempl_pk[k].cols[1].Date # NaT

C5_RoundTrip ==
    (/\ ~download_from_internet
     /\ pc \in {"align", "render", "done"}
     /\ lastRun.end = end_date_str) =>
        /\ Range(usempl_df) = Range(dropna(lastRun.df))
        /\ pc = "done" => /\ peak_vals = lastRun.peak_vals
                          /\ peak_dates = lastRun.peak_dates
                          /\ usempl_pk = lastRun.pk

\* C6: when get_usempl_data has returned, peak_vals and peak_dates hold one
\* entry for each of the 15 windows, and the w-th peak date (as soon as it is
\* recorded) lies inside the w-th search range.
C6_OnePeakPerWindow ==
    /\ pc \in {"render", "done"} => Len(peak_vals) = 15 /\ Len(peak_dates) = 15
    /\ \A w \in 0..(Len(peak_dates) - 1) :
           /\ strptime(peak_dates[w + 1]) >= strptime(maxdate_rng_lst[w + 1][1])
           /\ strptime(peak_dates[w + 1]) <= strptime(maxdate_rng_lst[w + 1][2])

\* C6 witness: a run has returned
C6_Witness == pc = "done" /\ Len(peak_dates) = 15

\* C7: in download mode, once the series is fetched, the resolved end date
\* is the latest date of the series and every file the run has written is
\* named by it.
C7_FilesNamedByResolvedEnd ==
    (download_from_internet /\ usempl_df # <<>>) =>
        /\ LET e2 == strptime(end_date_str2)
           IN  /\ \E k \in 1..Len(usempl_df) : usempl_df[k][1] = e2
               /\ \A k \in 1..Len(usempl_df) : usempl_df[k][1] <= e2
        /\ strftime(strptime(end_date_str2)) = end_date_str2
        /\ \A n \in written : n[2] = end_date_str2

\* C7 witness: a finished download-mode run that resolved an end date other
\* than the requested one and wrote the cache, the table and the chart
C7_Witness ==
    /\ pc = "done"
    /\ download_from_internet
    /\ end_date_str2 # end_date_str
    /\ written = {filename_basic(end_date_str2), filename_full(end_date_str2),
                  filename_html(end_date_str2)}

\* C8: a run fetches at most once, and a failed fetch ends the run with no
\* file written, no peak and no table.
C8_FetchFailureFatal ==
    /\ fetches <= 1
    /\ (fetches = 1 /\ usempl_df = <<>>) =>
           /\ pc = "failed"
           /\ err = "RemoteDataError"
           /\ written = {}
           /\ peak_vals = <<>>
           /\ usempl_pk = <<>>

\* C8 witness: a run ended by a failed fetch
C8_Witness == pc = "failed" /\ err = "RemoteDataError" /\ fetches = 1

\* C9: a cache-mode run whose cache file is absent fails before any window
\* is aligned: nothing is fetched, no peak is computed, no file is written.
C9_CacheMissFatal ==
    (/\ runs > 0
     /\ ~download_from_internet
     /\ filename_basic(end_date_str) \notin DOMAIN fs) =>
        /\ pc \in {"load", "failed"}
        /\ pc = "failed" => err = "FileNotFoundError"
        /\ fetches = 0
        /\ peak_vals = <<>>
        /\ usempl_pk = <<>>
        /\ written = {}

\* C9 witness: a cache-mode run ended by the missing cache file
C9_Witness ==
    /\ pc = "failed"
    /\ ~download_from_internet
    /\ filename_basic(end_date_str) \notin DOMAIN fs

\* C10: every classified interval falls into exactly one of the four cases
\* Outside, StartsBeforeRange, Inside, ExtendsAfterRange.
C10_ExactlyOneCase ==
    \A k \in 1..clip_k :
        LET iv == intervals[k]
            holds == <<IsOutside(iv[1], iv[2], visible_range[1], visible_range[2]),
                       IsStartsBeforeRange(iv[1], iv[2], visible_range[1], visible_range[2]),
                       IsInside(iv[1], iv[2], visible_range[1], visible_range[2]),
                       IsExtendsAfterRange(iv[1], iv[2], visible_range[1], visible_range[2])>>
        IN  /\ Cardinality({c \in 1..4 : holds[c]}) = 1
            /\ clip_cases[k] \in {"Outside", "StartsBeforeRange", "Inside",
                                  "ExtendsAfterRange"}

\* what a pass of the clipper's loop over interval (peak, trough) adds to the
\* rectangles, in the four situations C11 names
C11_Emits(peak, trough, date_from, date_to, before, after) ==
    /\ (trough < date_from \/ peak > date_to) => after = before
    /\ (peak < date_from /\ date_from <= trough /\ trough <= date_to) =>
           after = Append(before, <<date_from, trough>>)
    /\ (date_from <= peak /\ trough <= date_to) =>
           after = Append(before, <<peak, trough>>)
    /\ (date_from <= peak /\ peak <= date_to /\ trough > date_to) =>
           after = Append(before, <<peak, date_to>>)

\* C11: each pass of the clipper emits nothing for an interval entirely
\* outside the visible range, [date_from, trough] for one that starts before
\* and ends inside, [peak, trough] for one fully inside and [peak, date_to]
\* for one that starts inside and ends after; and every rectangle emitted
\* lies within [date_from, date_to].
C11_ClipResult ==
    /\ [][clip_k' = clip_k + 1 =>
            C11_Emits(intervals[clip_k + 1][1], intervals[clip_k + 1][2],
                      visible_range[1], visible_range[2],
                      rectangles, rectangles')]_vars
    /\ [](\A k \in 1..Len(rectangles) :
             /\ visible_range[1] <= rectangles[k][1]
             /\ rectangles[k][1] <= rectangles[k][2]
             /\ rectangles[k][2] <= visible_range[2])

\* C11 witness: the interval (1, 3) has been clipped to the visible range
\* (2, 4), which it starts before, and the rectangle [2, 3] was emitted
C11_Witness ==
    /\ visible_range = <<2, 4>>
    /\ intervals = << <<1, 3>> >>
    /\ clip_k = 1
    /\ rectangles = << <<2, 3>> >>

\* the cell of window w (0-based) in a row of the wide table holds no
\* missing value
FullCell(row, w) ==
    /\ row.cols[w + 1].Date # NaT
    /\ row.cols[w + 1].PAYEMS # NaN
    /\ row.cols[w + 1].usempl_dv_pk # <<NaN, NaN>>

\* C12, for the window w joined last: an offset of the axis has a cell of w
\* with no missing value exactly if the series has a point at that offset
\* from w's peak; a cell with a date holds a point of the series at the
\* row's offset, with its value and its value divided by the peak value.
C12_JoinedWindow(w) ==
    LET pv == peak_vals[w + 1]
        pk == strptime(peak_dates[w + 1])
        Off(dt) == (Year(dt) - Year(pk)) * 12 + (Month(dt) - Month(pk))
    IN  /\ \A k \in (0 - bkwd_mths_max)..frwd_mths_max :
               (\E r \in 1..Len(usempl_pk) :
                    usempl_pk[r].mths_frm_peak = k /\ FullCell(usempl_pk[r], w))
               <=> (\E n \in 1..Len(usempl_df) : Off(usempl_df[n][1]) = k)
        /\ \A r \in 1..Len(usempl_pk) :
               LET c == usempl_pk[r].cols[w + 1]
               IN  c.Date # NaT =>
                       /\ usempl_pk[r].mths_frm_peak \in
                              (0 - bkwd_mths_max)..frwd_mths_max
                       /\ \E n \in 1..Len(usempl_df) :
                              /\ usempl_df[n][1] = c.Date
                              /\ usempl_df[n][2] = c.PAYEMS
                              /\ Off(c.Date) = usempl_pk[r].mths_frm_peak
                              /\ c.usempl_dv_pk = Div(c.PAYEMS, pv)

\* C12: every window is joined onto the shared axis by a left join (see
\* C12_JoinedWindow), and the join of window i leaves the rows of the table
\* and their columns of the windows 0..i-1 as they were.
C12_LeftJoin ==
    /\ []((pc = "align" /\ i > 0) => C12_JoinedWindow(i - 1))
    /\ [][(pc = "align" /\ i' = i + 1) =>
            /\ Len(usempl_pk') = Len(usempl_pk)
            /\ \A r \in 1..Len(usempl_pk) :
                   /\ usempl_pk'[r].mths_frm_peak = usempl_pk[r].mths_frm_peak
                   /\ SubSeq(usempl_pk'[r].cols, 1, i) = usempl_pk[r].cols]_vars

\* C13: in a run the series is loaded once and before the first window is
\* aligned, the windows are aligned one after the other in the order of the
\* list, the table file is written only when all 15 are aligned and the
\* chart only after the table file; a run that fails at a window has written
\* neither the table file nor the chart.
C13_Ordering ==
    /\ [](/\ fetches <= 1
          /\ pc \in {"load", "annual"} => Len(peak_vals) = 0 /\ usempl_pk = <<>>
          /\ pc = "align" => Len(peak_dates) = i /\ Len(peak_vals) = i
          /\ pc \in {"render", "done"} =>
                 /\ i = 15 /\ Len(peak_dates) = 15
                 /\ filename_full(end_date_str2) \in written
                 /\ fs[filename_full(end_date_str2)] = usempl_pk
          /\ filename_full(end_date_str2) \in written =>
                 /\ pc \in {"render", "done"}
                 /\ \A r \in 1..Len(usempl_pk) : Len(usempl_pk[r].cols) = 15
          /\ filename_html(end_date_str2) \in written => pc = "done"
          /\ (pc = "failed" /\ Len(peak_vals) > 0) =>
                 /\ i < 15
                 /\ Len(peak_dates) = i
                 /\ filename_full(end_date_str2) \notin written
                 /\ filename_html(end_date_str2) \notin written)
    /\ [][/\ pc \in {"align", "render"} => usempl_df' = usempl_df
          /\ pc = "align" =>
                 \/ pc' = "align" /\ i' = i + 1 /\ i < 15
                 \/ pc' = "failed" /\ i' = i /\ i < 15
                 \/ pc' = "render" /\ i' = i /\ i = 15
          /\ pc = "render" => pc' = "done"]_vars

\* C13 witness: a run failed at the last window, after 14 windows were
\* aligned, and wrote no table file
C13_Witness ==
    /\ pc = "failed"
    /\ err = "ValueError"
    /\ i = 14
    /\ Len(peak_dates) = 14
    /\ filename_full(end_date_str2) \notin DOMAIN fs

\* C14: when a download-mode run has ended, normally or by an error, the
\* series cache file of the resolved end date is either not written by the
\* run or holds the whole series: the rows fetched and the annual rows of
\* 1919-1938.
C14_WholeCacheFile ==
    (/\ download_from_internet
     /\ pc \in {"failed", "done"}
     /\ filename_basic(end_date_str2) \in written) =>
        LET rows == Range(read_csv(fs[filename_basic(end_date_str2)]))
        IN  /\ Range(read_csv(usempl_ann_file)) \subseteq rows
            /\ \E r \in rows : r[1] >= start_date

====
